---- MODULE Spec2Model ----
(***************************************************************************)
(* The invocation supervisor of pywren_ibm_cloud:                          *)
(*   src/pywren_ibm_cloud/runtime/function_handler/handler.py              *)
(* function_handler(event) builds a status record, runs the JobRunner in   *)
(* a child process with a bounded join, merges the stats file the child    *)
(* wrote, and delivers the serialized record (RabbitMQ, object storage).   *)
(*                                                                         *)
(* The supervisor is sequential; it is cut into actions where it blocks    *)
(* or talks to the outside: Invoke (lines 67-141), Reap (142-186),         *)
(* Finalize (189-199), Attempt (one turn of the loop 201-216) and Store    *)
(* (218-221).  The child process (JobRunner, imported from jobrunner.py)   *)
(* runs concurrently and follows the protocol the specification gives for  *)
(* it: write stats lines to the stats file, push one token, exit.          *)
(***************************************************************************)
EXTENDS Integers, Sequences, FiniteSets, TLC

\* ------------------------------------------------------------------ bounds
\* Invocations served in sequence by one host process.
MaxInvocations == 2
\* Lines a stats file can hold.
MaxLines == 2

\* ------------------------------------------------------- program constants
\* handler.py:201  while not status_sent and output_query_count < 5
MaxQueueAttempts == 5

\* version.__version__ of the runtime (handler.py:106)
RuntimeVersion == "1.0.0"

\* ------------------------------------------------------------------ values
\* Python values held in the status record, by type.
VBool(b) == [t |-> "bool", s |-> IF b THEN "True" ELSE "False"]
VFloat(x) == [t |-> "float", s |-> x]
VStr(x) == [t |-> "str", s |-> x]
VNone == [t |-> "none", s |-> "None"]
VSet(x) == [t |-> "set", s |-> x]

\* time.time() read at logical instant n
VTime(n) == VFloat(ToString(n))

\* ------------------------------------------------- the dict response_status
\* A Python dict keeps insertion order: a sequence of entries.  `by` is
\* history: 0 for a value the supervisor computed, i for a value read from a
\* stats line written by the child of invocation i.
HasKey(d, key) == \E i \in 1..Len(d) : d[i].k = key

Get(d, key) == d[CHOOSE i \in 1..Len(d) : d[i].k = key].v

\* d[key] = val  (the dict expression d is evaluated once, then updated)
SetItem(d, key, val, who) ==
    LET Put(dict) ==
            IF HasKey(dict, key)
            THEN [i \in 1..Len(dict) |->
                    IF dict[i].k = key
                    THEN [k |-> key, v |-> val, by |-> who] ELSE dict[i]]
            ELSE Append(dict, [k |-> key, v |-> val, by |-> who])
    IN  CHOOSE r \in {Put(dict) : dict \in {d}} : TRUE

\* ------------------------------------------------------------- Job Events
\* The orchestrator numbers the calls of a job: the n-th invocation served
\* by this process carries call id n.
CallIdOf(n) == ToString(n)

StatusKeyOf(call) == <<"status", call>>
OutputKeyOf(call) == <<"output", call>>

\* config['pywren']['rabbitmq_monitor'] and config['rabbitmq'].get('amqp_url')
Configs ==
    { [rabbitmq_monitor |-> FALSE, amqp_url |-> "none"],
      [rabbitmq_monitor |-> TRUE, amqp_url |-> "amqp://host"],
      [rabbitmq_monitor |-> TRUE, amqp_url |-> "none"] }

\* extra_env: nothing, or a variable the handler itself reads
ExtraEnvs == { "none", "STORE_STATUS=False" }

CompleteEvents(n) ==
    { [complete |-> TRUE,
       host_submit_time |-> "t0",
       call_id |-> CallIdOf(n), job_id |-> "J0", executor_id |-> "E0",
       status_key |-> StatusKeyOf(CallIdOf(n)),
       output_key |-> OutputKeyOf(CallIdOf(n)),
       pywren_version |-> v, config |-> cfg, extra_env |-> x] :
      v \in {RuntimeVersion, "0.9.9"}, cfg \in Configs, x \in ExtraEnvs }

\* an event with a field of lines 71-94 missing
IncompleteEvent(n) ==
    [complete |-> FALSE,
     host_submit_time |-> "t0",
     call_id |-> CallIdOf(n), job_id |-> "J0", executor_id |-> "E0",
     status_key |-> StatusKeyOf(CallIdOf(n)),
     output_key |-> OutputKeyOf(CallIdOf(n)),
     pywren_version |-> RuntimeVersion,
     config |-> [rabbitmq_monitor |-> FALSE, amqp_url |-> "none"],
     extra_env |-> "none"]

Events(n) == CompleteEvents(n) \cup {IncompleteEvent(n)}

NoEvent == IncompleteEvent(0)

\* -------------------------------------------------------------- exceptions
\* An exception raised inside the try block: its first argument (the tag) and
\* whether pickle.dumps(sys.exc_info()) / pickle.loads succeed on it.  The
\* three the supervisor raises itself are Exception(str, str, ...).
Exc(tag, p) == [tag |-> tag, picklable |-> p]

NoExc == Exc("none", TRUE)

\* ------------------------------------------------------------- stats file
\* A line of the stats file is its words (the text between single spaces);
\* `by` is history: the invocation whose child wrote the line.
\* What a JobRunner can leave in the file: the literal-text fields and numeric
\* stats the specification lists, a line cut before its value, a value that
\* is no Python literal, a literal that is no JSON value, and a stat whose
\* key is one the supervisor set itself.
StatsTexts ==
    { <<"result", "True">>,
      <<"exception", "True">>,
      <<"exec_time", "2">>,
      <<"result">>,
      <<"result", "abc">>,
      <<"new_futures", "{0}">>,
      <<"call_id", "abc">> }

\* handler.py:171
EvalKeys == {"exception", "exc_pickle_fail", "result", "new_futures"}

\* float(value) succeeds on these texts, with this result
IsFloat(text) == text \in {"2"}

FloatOf(text) == IF text = "2" THEN VFloat("2.0") ELSE VFloat(text)

\* eval(value) succeeds on these texts, with this result
CanEval(text) == text \in {"True", "False", "2", "{0}"}

Eval(text) ==
    CASE text = "True" -> VBool(TRUE)
      [] text = "False" -> VBool(FALSE)
      [] text = "2" -> [t |-> "int", s |-> "2"]
      [] OTHER -> VSet(text)

\* handler.py:166-172, one line of the loop: the record after the line and the
\* exception the line raised (NoExc when none)
ParseLine(rs, line) ==
    IF Len(line.words) < 2
    THEN [rs |-> rs, exc |-> Exc("ValueError", TRUE)]
    ELSE LET key == line.words[1]
             value == line.words[2]
             rs1 == SetItem(rs, key,
                            IF IsFloat(value) THEN FloatOf(value) ELSE VStr(value),
                            line.by)
         IN  IF key \in EvalKeys
             THEN IF CanEval(value)
                  THEN [rs |-> SetItem(rs1, key, Eval(value), line.by), exc |-> NoExc]
                  ELSE [rs |-> rs1, exc |-> Exc("NameError", TRUE)]
             ELSE [rs |-> rs1, exc |-> NoExc]

\* handler.py:165-172: the loop stops at the first line that raises
RECURSIVE ParseStats(_, _)
ParseStats(rs, lines) ==
    IF lines = <<>>
    THEN [rs |-> rs, exc |-> NoExc]
    ELSE LET r == ParseLine(rs, Head(lines))
         IN  IF r.exc # NoExc THEN r ELSE ParseStats(r.rs, Tail(lines))

\* A variant of the except clause that forgets line 181.
HandleException_NoEndTime(rs, exc, now) ==
    LET rs1 == SetItem(rs, "exception", VBool(TRUE), 0)
    IN  IF exc.picklable
        THEN [rs |-> SetItem(rs1, "exc_info", VStr(exc.tag), 0), raised |-> NoExc]
        ELSE [rs |-> rs1, raised |-> Exc("PicklingError", TRUE)]

\* ------------------------------------------------------- the except clause
\* handler.py:178-186.  `raised` is the exception the clause itself raises:
\* pickle.dumps / pickle.loads are not guarded.
HandleException(rs, exc, now) ==
    LET rs1 == SetItem(SetItem(rs, "end_time", VTime(now), 0),
                       "exception", VBool(TRUE), 0)
    IN  IF exc.picklable
        THEN [rs |-> SetItem(rs1, "exc_info", VStr(exc.tag), 0), raised |-> NoExc]
        ELSE [rs |-> rs1, raised |-> Exc("PicklingError", TRUE)]

\* ----------------------------------------------------------- json.dumps
\* The JSON text of a value: True/False become true/false, None null, a
\* float its repr, a string is quoted.
JsonValue(v) ==
    CASE v.t = "bool" -> [j |-> "literal", s |-> IF v.s = "True" THEN "true" ELSE "false"]
      [] v.t = "none" -> [j |-> "literal", s |-> "null"]
      [] v.t \in {"float", "int"} -> [j |-> "number", s |-> v.s]
      [] OTHER -> [j |-> "string", s |-> v.s]

JsonSerializable(v) == v.t \in {"bool", "none", "float", "int", "str"}

\* json.dumps(response_status): the members in the dict's order; raises
\* TypeError (ok = FALSE) on a value json cannot encode
JsonDumps(rs) ==
    [ok |-> \A i \in 1..Len(rs) : JsonSerializable(rs[i].v),
     text |-> [i \in 1..Len(rs) |-> <<rs[i].k, JsonValue(rs[i].v)>>]]

\* ------------------------------------------------------------------ state
VARIABLES
    inv,                    \* invocations started so far in this process
    pc,                     \* where function_handler is
    event,                  \* the Job Event of the current invocation
    environ,                \* os.environ, the variable the handler reads back
    response_status,        \* the dict of line 70
    stats_file,             \* the file at JOBRUNNER_STATS_FILENAME
    tr,                     \* the child process of the current invocation
    orphans,                \* earlier invocations whose child still runs
    result_queue,           \* tokens in the multiprocessing.Queue of line 137
    store_status,           \* line 189
    dmpd_response_status,   \* line 190
    output_query_count,     \* line 197
    status_sent,            \* line 196
    connections,            \* pika connections opened and not closed
    published,              \* basic_publish calls made: <<queue, body>>
    put_calls,              \* put_data calls made: <<key, data>>
    pending,                \* exception raised by the except clause, in flight
    escaped,                \* exception that left function_handler
    hist                    \* what this invocation did (history)

vars == <<inv, pc, event, environ, response_status, stats_file, tr, orphans,
          result_queue, store_status, dmpd_response_status, output_query_count,
          status_sent, connections, published, put_calls, pending, escaped, hist>>

finvars == <<store_status, dmpd_response_status, output_query_count,
             status_sent, connections, published, put_calls>>

NoFile == [exists |-> FALSE, lines |-> <<>>]

NoChild == [state |-> "none", sigterm |-> FALSE, sub |-> FALSE]

\* outcome: how the try statement ended ("ok", the tag of a fatal error,
\* "internal" for any other exception, "step1" for one before the try);
\* alive_at_join, token_at_join: the child and the queue when tr.join returned
NoHist == [outcome |-> "none", terminated |-> FALSE, queue_read |-> FALSE,
           stats_read |-> FALSE, started |-> FALSE, environ_updated |-> FALSE,
           alive_at_join |-> FALSE, token_at_join |-> FALSE]

\* tr.is_alive()
IsAlive(p) == p.state \in {"running", "waiting", "signalled"}

\* time.time() at function entry and after tr.join of the n-th invocation
TimeAtEntry(n) == 2 * n
TimeAfterJoin(n) == 2 * n + 1

Init ==
    /\ inv = 0
    /\ pc = "idle"
    /\ event = NoEvent
    /\ environ = [STORE_STATUS |-> "unset"]
    /\ response_status = <<>>
    /\ stats_file = NoFile
    /\ tr = NoChild
    /\ orphans = {}
    /\ result_queue = 0
    /\ store_status = TRUE
    /\ dmpd_response_status = <<>>
    /\ output_query_count = 0
    /\ status_sent = FALSE
    /\ connections = 0
    /\ published = <<>>
    /\ put_calls = <<>>
    /\ pending = NoExc
    /\ escaped = NoExc
    /\ hist = NoHist

\* ------------------------------------------------- function_handler, entry
\* lines 70-72 and 97-99
InitialStatus(ev, now) ==
    LET d1 == SetItem(<<>>, "exception", VBool(FALSE), 0)
        d2 == SetItem(d1, "host_submit_time", VStr(ev.host_submit_time), 0)
        d3 == SetItem(d2, "start_time", VTime(now), 0)
        d4 == SetItem(d3, "call_id", VStr(ev.call_id), 0)
        d5 == SetItem(d4, "job_id", VStr(ev.job_id), 0)
    IN  SetItem(d5, "executor_id", VStr(ev.executor_id), 0)

\* lines 115-116: os.environ.update(custom_env); os.environ.update(extra_env)
\* (custom_env sets PYWREN_CONFIG, PYTHONPATH and PYTHONUNBUFFERED, which the
\* handler never reads back: hist.environ_updated records the update)
UpdateEnviron(env, extra_env) ==
    IF extra_env = "STORE_STATUS=False"
    THEN [env EXCEPT !.STORE_STATUS = "False"]
    ELSE env

\* What JobRunner(...) and tr.start() (lines 138-141) can do: start the child,
\* or raise; an exception raised there may or may not pickle.
SpawnOutcomes == { NoExc, Exc("OSError", TRUE), Exc("SpawnError", FALSE) }

\* A variant that accepts any version tag.
VersionMatches_Any(ev) == TRUE

\* The version check of line 106.
VersionMatches(ev) == ev.pywren_version = RuntimeVersion

\* lines 67-141, up to the blocking tr.join; on an exception of the try block,
\* through the except clause (178-186).  An exception of lines 68-99 is
\* outside the try statement and leaves the function at once.
Invoke(ev, spawn) ==
    /\ pc \in {"idle", "done"}
    /\ inv < MaxInvocations
    /\ inv' = inv + 1
    /\ event' = ev
    /\ orphans' = IF IsAlive(tr) THEN orphans \cup {inv} ELSE orphans
    /\ store_status' = TRUE
    /\ dmpd_response_status' = <<>>
    /\ output_query_count' = 0
    /\ status_sent' = FALSE
    /\ connections' = 0
    /\ published' = <<>>
    /\ put_calls' = <<>>
    /\ LET now == TimeAtEntry(inv + 1)
           rs0 == InitialStatus(ev, now)
       IN  IF ~ev.complete
           THEN /\ response_status' = SetItem(<<>>, "exception", VBool(FALSE), 0)
                /\ escaped' = Exc("KeyError", TRUE)
                /\ pending' = NoExc
                /\ pc' = "done"
                /\ hist' = [NoHist EXCEPT !.outcome = "step1"]
                /\ tr' = NoChild
                /\ result_queue' = 0
                /\ UNCHANGED <<environ, stats_file>>
           ELSE IF ~VersionMatches(ev)
           THEN LET h == HandleException(rs0, Exc("WRONGVERSION", TRUE), now)
                IN  /\ response_status' = h.rs
                    /\ pending' = h.raised
                    /\ escaped' = NoExc
                    /\ pc' = "finalize"
                    /\ hist' = [NoHist EXCEPT !.outcome = "WRONGVERSION"]
                    /\ tr' = NoChild
                    /\ result_queue' = 0
                    /\ UNCHANGED <<environ, stats_file>>
           ELSE LET rs1 == SetItem(rs0, "setup_time", VFloat("0.0"), 0)
                IN  /\ environ' = UpdateEnviron(environ, ev.extra_env)
                    /\ stats_file' = NoFile
                    /\ result_queue' = 0
                    /\ escaped' = NoExc
                    /\ IF spawn = NoExc
                       THEN /\ response_status' = rs1
                            /\ pending' = NoExc
                            /\ tr' = [NoChild EXCEPT !.state = "running"]
                            /\ pc' = "join"
                            /\ hist' = [NoHist EXCEPT !.started = TRUE,
                                                      !.environ_updated = TRUE]
                       ELSE LET h == HandleException(rs1, spawn, now)
                            IN  /\ response_status' = h.rs
                                /\ pending' = h.raised
                                /\ tr' = NoChild
                                /\ pc' = "finalize"
                                /\ hist' = [NoHist EXCEPT !.outcome = "internal",
                                                          !.environ_updated = TRUE]

\* ------------------------------------------------------- the child process
\* The JobRunner child: it runs the user function (which may start a
\* subprocess and wait for it), writes stats lines to the file at the fixed
\* path, pushes one token onto the result queue when finished, and exits.
\* tr.state: "running", "waiting" (for its subprocess), "signalled" (token
\* pushed, in its cleanup), "dead"; tr.sub: its subprocess runs.
ChildSpawn ==
    /\ pc = "join"
    /\ tr.state = "running"
    /\ stats_file.lines = <<>>
    /\ tr' = [tr EXCEPT !.state = "waiting", !.sub = TRUE]
    /\ UNCHANGED <<inv, pc, event, environ, response_status, stats_file, orphans,
                   result_queue, finvars, pending, escaped, hist>>

SubprocessExits ==
    /\ pc = "join"
    /\ tr.state = "waiting"
    /\ tr' = [tr EXCEPT !.state = "running", !.sub = FALSE]
    /\ UNCHANGED <<inv, pc, event, environ, response_status, stats_file, orphans,
                   result_queue, finvars, pending, escaped, hist>>

\* One line appended to the file at the path, which is created when absent.
WriteLine(file, words, who) ==
    [exists |-> TRUE, lines |-> Append(file.lines, [words |-> words, by |-> who])]

ChildWrite(words) ==
    /\ pc = "join"
    /\ tr.state = "running"
    /\ Len(stats_file.lines) < MaxLines
    /\ stats_file' = WriteLine(stats_file, words, inv)
    /\ UNCHANGED <<inv, pc, event, environ, response_status, tr, orphans,
                   result_queue, finvars, pending, escaped, hist>>

\* result_queue.put(token): the child has finished and is in its cleanup
ChildSignal ==
    /\ pc = "join"
    /\ tr.state = "running"
    /\ tr' = [tr EXCEPT !.state = "signalled"]
    /\ result_queue' = result_queue + 1
    /\ UNCHANGED <<inv, pc, event, environ, response_status, stats_file, orphans,
                   finvars, pending, escaped, hist>>

ChildExit ==
    /\ pc = "join"
    /\ tr.state = "signalled"
    /\ tr' = [tr EXCEPT !.state = "dead"]
    /\ UNCHANGED <<inv, pc, event, environ, response_status, stats_file, orphans,
                   result_queue, finvars, pending, escaped, hist>>

\* The child is killed from outside before it signals (the out-of-memory
\* manager), or dies of the SIGTERM that tr.terminate() sent: at once, or
\* not before function_handler has returned (then see OrphanDies).  Its
\* subprocess is left alone.
ChildKilled ==
    /\ \/ pc = "join" /\ tr.state \in {"running", "waiting"}
       \/ pc = "finalize" /\ tr.sigterm /\ IsAlive(tr)
    /\ tr' = [tr EXCEPT !.state = "dead"]
    /\ UNCHANGED <<inv, pc, event, environ, response_status, stats_file, orphans,
                   result_queue, finvars, pending, escaped, hist>>

\* A child of an earlier invocation that outlived it (terminate() does not
\* wait for the child) reaches the end of its run: it writes a line to the
\* same path and is gone.  Only a write during a later join is modelled:
\* line 132 removes any earlier one before a read.
OrphanWrite(i, words) ==
    /\ pc = "join"
    /\ i \in orphans
    /\ Len(stats_file.lines) < MaxLines
    /\ stats_file' = WriteLine(stats_file, words, i)
    /\ orphans' = orphans \ {i}
    /\ UNCHANGED <<inv, pc, event, environ, response_status, tr,
                   result_queue, finvars, pending, escaped, hist>>

OrphanDies(i) ==
    /\ i \in orphans
    /\ orphans' = orphans \ {i}
    /\ UNCHANGED <<inv, pc, event, environ, response_status, stats_file, tr,
                   result_queue, finvars, pending, escaped, hist>>

\* ------------------------------------------- function_handler, after join
\* line 150: tr.terminate() sends SIGTERM to the child and returns
Terminate(p) == [p EXCEPT !.sigterm = TRUE]

\* line 175: response_status.update(context_dict)
UpdateContext(rs) ==
    SetItem(SetItem(rs, "ibm_cf_request_id", VNone, 0), "python_version", VNone, 0)

\* A variant that looks for the token before it looks at the child.
ReapOutcome_QueueFirst(p, queue) ==
    IF queue > 0 THEN "token"
    ELSE IF IsAlive(p) THEN "OUTATIME"
    ELSE "OUTOFMEMORY"

\* A variant that swallows the Empty exception of result_queue.get.
ReapOutcome_NoTokenNeeded(p, queue) ==
    IF IsAlive(p) THEN "OUTATIME" ELSE "token"

\* A variant that goes on to the stats file whatever it finds.
ReapOutcome_AlwaysToken(p, queue) == "token"

\* A variant that takes every dead child for a killed one.
ReapOutcome_DeadIsLost(p, queue) ==
    IF IsAlive(p) THEN "OUTATIME" ELSE "OUTOFMEMORY"

\* lines 146-158: what the supervisor concludes once tr.join has returned,
\* from tr.is_alive() and result_queue.get(block=False)
ReapOutcome(p, queue) ==
    IF IsAlive(p) THEN "OUTATIME"
    ELSE IF queue = 0 THEN "OUTOFMEMORY"
    ELSE "token"

\* A variant of the join without its timeout: tr.join().
JoinReturns_NoTimeout(p, timedout) == ~IsAlive(p)

\* line 142: tr.join(execution_timeout) returns once the child is gone or
\* execution_timeout seconds have passed
JoinReturns(p, timedout) == ~IsAlive(p) \/ timedout

\* lines 142-186: tr.join returned, because the child is gone or because
\* execution_timeout seconds passed with the child still alive.
Reap ==
    /\ pc = "join"
    /\ \E timedout \in BOOLEAN : JoinReturns(tr, timedout)
    /\ pc' = "finalize"
    /\ LET now == TimeAfterJoin(inv)
           rs1 == SetItem(response_status, "exec_time", VFloat("1.0"), 0)
           what == ReapOutcome(tr, result_queue)
           seen == [hist EXCEPT !.alive_at_join = IsAlive(tr),
                                !.token_at_join = (result_queue > 0)]
       IN  IF what = "OUTATIME"
           THEN LET h == HandleException(rs1, Exc("OUTATIME", TRUE), now)
                IN  /\ tr' = Terminate(tr)
                    /\ response_status' = h.rs
                    /\ pending' = h.raised
                    /\ hist' = [seen EXCEPT !.outcome = "OUTATIME", !.terminated = TRUE]
                    /\ UNCHANGED result_queue
           ELSE IF what = "OUTOFMEMORY"
           THEN LET h == HandleException(rs1, Exc("OUTOFMEMORY", TRUE), now)
                IN  /\ response_status' = h.rs
                    /\ pending' = h.raised
                    /\ hist' = [seen EXCEPT !.outcome = "OUTOFMEMORY", !.queue_read = TRUE]
                    /\ UNCHANGED <<tr, result_queue>>
           ELSE LET r == IF stats_file.exists
                         THEN ParseStats(rs1, stats_file.lines)
                         ELSE [rs |-> rs1, exc |-> NoExc]
                    h == HandleException(r.rs, r.exc, now)
                IN  /\ result_queue' = IF result_queue > 0 THEN result_queue - 1 ELSE 0
                    /\ UNCHANGED tr
                    /\ IF r.exc = NoExc
                       THEN /\ response_status' =
                                 SetItem(UpdateContext(r.rs), "end_time", VTime(now), 0)
                            /\ pending' = NoExc
                            /\ hist' = [seen EXCEPT !.outcome = "ok", !.queue_read = TRUE,
                                                    !.stats_read = stats_file.exists]
                       ELSE /\ response_status' = h.rs
                            /\ pending' = h.raised
                            /\ hist' = [seen EXCEPT !.outcome = "internal", !.queue_read = TRUE,
                                                    !.stats_read = TRUE]
    /\ UNCHANGED <<inv, event, environ, stats_file, orphans, finvars, escaped>>

\* ----------------------------------------------- function_handler, finally
\* line 189: strtobool(os.environ.get('STORE_STATUS', 'True'))
StoreStatusFlag(env) == env.STORE_STATUS # "False"

\* line 198: pika.URLParameters(url) raises on a url it cannot parse (None)
UrlParses(url) == url # "none"

\* line 199
QueueName(ev) == <<ev.executor_id, ev.job_id>>

\* lines 189-199.  An exception raised here leaves the finally block, and the
\* function, at once; it replaces one still in flight.
Finalize ==
    /\ pc = "finalize"
    /\ LET dumped == JsonDumps(response_status)
           flag == StoreStatusFlag(environ)
       IN  /\ store_status' = flag
           /\ IF ~dumped.ok
              THEN /\ escaped' = Exc("TypeError", TRUE)
                   /\ pc' = "done"
                   /\ UNCHANGED dmpd_response_status
              ELSE /\ dmpd_response_status' = dumped.text
                   /\ IF event.config.rabbitmq_monitor /\ flag
                      THEN IF UrlParses(event.config.amqp_url)
                           THEN /\ pc' = "publish"
                                /\ UNCHANGED escaped
                           ELSE /\ pc' = "done"
                                /\ escaped' = Exc("URLParameters", TRUE)
                      ELSE /\ pc' = "store"
                           /\ UNCHANGED escaped
    /\ UNCHANGED <<inv, event, environ, response_status, stats_file, tr, orphans,
                   result_queue, output_query_count, status_sent, connections,
                   published, put_calls, pending, hist>>

\* Where one attempt (lines 204-209) can fail.
AttemptOutcomes ==
    {"connect_failed", "channel_failed", "declare_failed", "publish_failed",
     "close_failed", "sent"}

\* A variant of the loop without its try statement: a failed attempt leaves
\* the function.
Attempt_Raises(outcome) ==
    /\ pc = "publish"
    /\ ~status_sent /\ output_query_count < MaxQueueAttempts
    /\ output_query_count' = output_query_count + 1
    /\ connections' = IF outcome \in {"connect_failed", "sent"}
                      THEN connections ELSE connections + 1
    /\ published' = IF outcome \in {"close_failed", "sent"}
                    THEN Append(published, <<<<event.executor_id, event.job_id>>,
                                             dmpd_response_status>>)
                    ELSE published
    /\ status_sent' = (outcome = "sent")
    /\ pc' = IF outcome = "sent" THEN "store" ELSE "done"
    /\ escaped' = IF outcome = "sent" THEN escaped ELSE Exc("AMQPError", TRUE)
    /\ UNCHANGED <<inv, event, environ, response_status, stats_file, tr, orphans,
                   result_queue, store_status, dmpd_response_status, put_calls,
                   pending, hist>>

\* A variant of the loop whose condition forgets status_sent.
Attempt_NoStop(outcome) ==
    /\ pc = "publish"
    /\ output_query_count < MaxQueueAttempts
    /\ output_query_count' = output_query_count + 1
    /\ connections' = IF outcome \in {"connect_failed", "sent"}
                      THEN connections ELSE connections + 1
    /\ published' = IF outcome \in {"close_failed", "sent"}
                    THEN Append(published, <<<<event.executor_id, event.job_id>>,
                                             dmpd_response_status>>)
                    ELSE published
    /\ status_sent' = (status_sent \/ outcome = "sent")
    /\ pc' = IF output_query_count + 1 >= MaxQueueAttempts
             THEN "store" ELSE "publish"
    /\ UNCHANGED <<inv, event, environ, response_status, stats_file, tr, orphans,
                   result_queue, store_status, dmpd_response_status, put_calls,
                   pending, escaped, hist>>

\* lines 201-216, one turn of the loop.  A connection opened by line 204 is
\* closed by line 209 only; the except clause closes nothing.
Attempt(outcome) ==
    /\ pc = "publish"
    /\ ~status_sent /\ output_query_count < MaxQueueAttempts
    /\ output_query_count' = output_query_count + 1
    /\ connections' = IF outcome \in {"connect_failed", "sent"}
                      THEN connections ELSE connections + 1
    /\ published' = IF outcome \in {"close_failed", "sent"}
                    THEN Append(published, <<QueueName(event), dmpd_response_status>>)
                    ELSE published
    /\ status_sent' = (outcome = "sent")
    /\ pc' = IF outcome = "sent" \/ output_query_count + 1 >= MaxQueueAttempts
             THEN "store" ELSE "publish"
    /\ UNCHANGED <<inv, event, environ, response_status, stats_file, tr, orphans,
                   result_queue, store_status, dmpd_response_status, put_calls,
                   pending, escaped, hist>>

\* A variant that stores the record at the key of the function's output.
Store_AtOutputKey(ok) ==
    /\ pc = "store"
    /\ pc' = "done"
    /\ put_calls' = IF store_status
                    THEN Append(put_calls, <<event.output_key, dmpd_response_status>>)
                    ELSE put_calls
    /\ escaped' = IF store_status /\ ~ok THEN Exc("StorageError", TRUE) ELSE pending
    /\ UNCHANGED <<inv, event, environ, response_status, stats_file, tr, orphans,
                   result_queue, store_status, dmpd_response_status,
                   output_query_count, status_sent, connections, published,
                   pending, hist>>

\* lines 218-221, and the return: internal_storage.put_data(status_key, ...)
\* succeeds or raises; an exception still in flight from the except clause
\* leaves the function after the finally block.
Store(ok) ==
    /\ pc = "store"
    /\ pc' = "done"
    /\ put_calls' = IF store_status
                    THEN Append(put_calls, <<event.status_key, dmpd_response_status>>)
                    ELSE put_calls
    /\ escaped' = IF store_status /\ ~ok THEN Exc("StorageError", TRUE) ELSE pending
    /\ UNCHANGED <<inv, event, environ, response_status, stats_file, tr, orphans,
                   result_queue, store_status, dmpd_response_status,
                   output_query_count, status_sent, connections, published,
                   pending, hist>>

Next ==
    \/ \E ev \in Events(inv + 1), spawn \in SpawnOutcomes : Invoke(ev, spawn)
    \/ ChildSpawn
    \/ SubprocessExits
    \/ \E w \in StatsTexts : ChildWrite(w)
    \/ ChildSignal
    \/ ChildExit
    \/ ChildKilled
    \/ \E i \in 1..MaxInvocations, w \in StatsTexts : OrphanWrite(i, w)
    \/ \E i \in 1..MaxInvocations : OrphanDies(i)
    \/ Reap
    \/ Finalize
    \/ \E o \in AttemptOutcomes : Attempt(o)
    \/ \E ok \in BOOLEAN : Store(ok)

Spec == Init /\ [][Next]_vars

\* The supervisor is a running sequential program: each of its steps, once
\* it can be taken, is taken (the join is bounded by execution_timeout, the
\* queue read does not block, an attempt and a put_data call return).
\* Nothing is assumed of the child, of its subprocess or of the next event.
Supervisor ==
    \/ Reap
    \/ Finalize
    \/ \E o \in AttemptOutcomes : Attempt(o)
    \/ \E ok \in BOOLEAN : Store(ok)

FairSpec == Spec /\ WF_vars(Supervisor)

\* ================================================================= claims
\* function_handler has reached its finally block and not yet returned
InFinally == pc \in {"finalize", "publish", "store"}

\* the record holds `key` with value `val`
Holds(rs, key, val) == HasKey(rs, key) /\ Get(rs, key) = val

\* the serialized record holds member `key` with JSON text `jv`
PayloadHas(payload, key, jv) ==
    \E i \in 1..Len(payload) : payload[i] = <<key, jv>>

JsonTrue == [j |-> "literal", s |-> "true"]

\* the configuration of the event lets the queue path be set up
ConfigUsable(ev) ==
    ev.config.rabbitmq_monitor => ev.config.amqp_url # "none"

\* C1: for a Job Event that carries all fields and whatever the child did
\* (finished, raised, timed out, died, left a malformed stats file),
\* function_handler returns normally: no exception leaves it.  (A failing
\* put_data, which nothing is meant to catch, and a configuration without a
\* queue url are set aside.)
C1_ReturnsNormally ==
    (/\ pc = "done"
     /\ event.complete
     /\ hist.started
     /\ ConfigUsable(event)
     /\ escaped.tag # "StorageError")
    => escaped = NoExc

\* C2: with the store-status flag enabled, an invocation that has returned
\* has made exactly one put_data call, whichever path it took.
C2_ExactlyOnePut ==
    (pc = "done" /\ event.complete /\ StoreStatusFlag(environ))
    => Len(put_calls) = 1

C4_WrongVersion ==
    (event.complete /\ event.pywren_version # RuntimeVersion)
    => /\ Holds(response_status, "exception", VBool(TRUE))
       /\ Holds(response_status, "exc_info", VStr("WRONGVERSION"))
       /\ \A i \in 1..Len(put_calls) :
            /\ PayloadHas(put_calls[i][2], "exception", JsonTrue)
            /\ PayloadHas(put_calls[i][2], "exc_info",
                          [j |-> "string", s |-> "WRONGVERSION"])

\* C4 witness: a mismatching event with extra_env set has returned and its
\* record was stored.
C4_Witness ==
    /\ pc = "done"
    /\ event.pywren_version # RuntimeVersion
    /\ event.extra_env # "none"
    /\ Len(put_calls) = 1
    /\ escaped = NoExc

\* C5: if the child is alive when tr.join returns, the supervisor terminates
\* it and the record has exception = True with an OUTATIME-tagged exc_info;
\* neither the result queue nor the stats file is read.
C5_Timeout ==
    hist.alive_at_join
    => /\ hist.outcome = "OUTATIME"
       /\ hist.terminated /\ tr.sigterm
       /\ Holds(response_status, "exception", VBool(TRUE))
       /\ Holds(response_status, "exc_info", VStr("OUTATIME"))
       /\ ~hist.queue_read /\ ~hist.stats_read
       /\ ~HasKey(response_status, "result")

\* C5 witness: a timeout with the token on the queue and a stats file on
\* disk, both left alone.
C5_Witness ==
    /\ pc = "done"
    /\ hist.alive_at_join
    /\ result_queue > 0
    /\ stats_file.exists /\ stats_file.lines # <<>>

\* C6: after a timeout, when function_handler has returned, neither the
\* child nor a subprocess it started is running.
C6_NothingRunsAfterTimeout ==
    (pc = "done" /\ hist.outcome = "OUTATIME" /\ escaped = NoExc)
    => ~IsAlive(tr) /\ ~tr.sub

\* C7: if the child is dead when tr.join returns and left no token, the
\* supervisor does not wait for one: it goes on to its finally block with a
\* record that has exception = True and an OUTOFMEMORY-tagged exc_info.
C7_SilentDeath ==
    (hist.started /\ pc # "join" /\ ~hist.alive_at_join /\ ~hist.token_at_join)
    => /\ hist.outcome = "OUTOFMEMORY"
       /\ hist.queue_read /\ ~hist.stats_read
       /\ Holds(response_status, "exception", VBool(TRUE))
       /\ Holds(response_status, "exc_info", VStr("OUTOFMEMORY"))

\* C7 witness: the child wrote a stats line, died without a token, and the
\* invocation has returned.
C7_Witness ==
    /\ pc = "done"
    /\ hist.started /\ ~hist.alive_at_join /\ ~hist.token_at_join
    /\ stats_file.lines # <<>>
    /\ tr.state = "dead"

\* C8: no value of the status record of an invocation comes from a stats
\* line written by the child of an earlier invocation.
C8_NoStaleStats ==
    \A i \in 1..Len(response_status) : response_status[i].by \in {0, inv}

\* C9: when function_handler returns with the status unsent after a failed
\* attempt, all 5 attempts were made, no exception of the queue path left
\* the function, and put_data was called (the store-status flag being set).
C9_QueueUnreachable ==
    (pc = "done" /\ output_query_count > 0 /\ ~status_sent)
    => /\ output_query_count = MaxQueueAttempts
       /\ escaped.tag # "AMQPError"
       /\ store_status => Len(put_calls) = 1

\* C9 witness: five failed attempts, then the record stored and a normal
\* return.
C9_Witness ==
    /\ pc = "done"
    /\ output_query_count = MaxQueueAttempts /\ ~status_sent
    /\ published = <<>>
    /\ Len(put_calls) = 1
    /\ escaped = NoExc

\* C10: put_data is called with the status_key of the event and the
\* serialization of the record; every body published to the queue is that
\* same string, on the queue named after executor_id and job_id.
C10_Delivery ==
    /\ \A i \in 1..Len(put_calls) :
         put_calls[i] = <<event.status_key, JsonDumps(response_status).text>>
    /\ \A i \in 1..Len(published) :
         published[i] = <<QueueName(event), JsonDumps(response_status).text>>

\* C10 witness: a successful run whose merged record went to the queue and
\* to storage.
C10_Witness ==
    /\ pc = "done"
    /\ hist.outcome = "ok" /\ hist.stats_read
    /\ status_sent /\ Len(published) = 1
    /\ Len(put_calls) = 1
    /\ escaped = NoExc

\* C11: the two delivery paths are toggled independently.  When an
\* invocation has returned normally: with rabbitmq_monitor set, the queue
\* publish was attempted whether or not the store-status flag was set; and
\* with the store-status flag set, put_data was called whether or not
\* rabbitmq_monitor was set.  (The configuration holds a queue url whenever
\* rabbitmq_monitor is set.)
C11_IndependentToggles ==
    (pc = "done" /\ event.complete /\ ConfigUsable(event) /\ escaped = NoExc)
    => /\ event.config.rabbitmq_monitor => output_query_count >= 1
       /\ store_status => Len(put_calls) = 1

\* C12: once the finally block is entered with the store-status flag set,
\* put_data is called at status_key before function_handler is left, whatever
\* fails in the serialization of the record or in the set-up of the queue
\* path.  (A failure of put_data itself still is a call.)
C12_DurableWriteNotSkipped ==
    (/\ pc = "done"
     /\ hist.outcome # "step1"
     /\ StoreStatusFlag(environ))
    => \E i \in 1..Len(put_calls) : put_calls[i][1] = event.status_key

\* C13: the publish loop makes at most 5 attempts in an invocation; an
\* attempt is made only while the status is unsent, so none follows the
\* first attempt that completes without error; and when the loop is left
\* with the status unsent, exactly 5 attempts were made.
C13_AtMostFiveAttempts ==
    /\ [](/\ output_query_count <= MaxQueueAttempts
          /\ (pc \in {"store", "done"} /\ output_query_count > 0 /\ ~status_sent)
             => output_query_count = MaxQueueAttempts)
    /\ [][output_query_count' > output_query_count
          => (~status_sent /\ output_query_count < MaxQueueAttempts)]_vars

\* C13 witness: two failed attempts, the third one sent the status, and the
\* invocation returned without a fourth.
C13_Witness ==
    /\ pc = "done"
    /\ status_sent
    /\ output_query_count = 3
    /\ Len(published) = 1

\* C14: when function_handler has returned, every connection the publish
\* loop opened has been closed, also those of attempts that failed after the
\* connection was established.
C14_ConnectionsClosed ==
    pc = "done" => connections = 0

\* C15: the stats file is read only after a token was taken from the result
\* queue, with the child gone.  On the timeout path and on the no-token path
\* the file is not opened and no value of the record comes from a stats line.
C15_StatsAfterToken ==
    /\ hist.stats_read
       => (hist.queue_read /\ hist.token_at_join /\ ~hist.alive_at_join)
    /\ hist.outcome \in {"OUTATIME", "OUTOFMEMORY"}
       => /\ ~hist.stats_read
          /\ \A i \in 1..Len(response_status) : response_status[i].by = 0

\* C15 witness: a child that had written a stats line timed out, another one
\* died without a token; the file was on disk and was left alone.
C15_Witness ==
    /\ InFinally
    /\ hist.outcome \in {"OUTATIME", "OUTOFMEMORY"}
    /\ stats_file.exists /\ Len(stats_file.lines) = MaxLines
    /\ ~hist.stats_read

\* C16: whether the status of an invocation is stored depends on that
\* invocation's event alone: an invocation whose event sets no STORE_STATUS
\* in extra_env, and that returns normally, has stored its record, whatever
\* the events of the invocations before it held.
C16_NoSharedEnviron ==
    (/\ pc = "done"
     /\ event.complete
     /\ event.extra_env = "none"
     /\ escaped = NoExc)
    => Len(put_calls) = 1

\* C17: an exception raised while the event fields are read (lines 68-99) is
\* handled like the others: the record gets end_time and exception = True,
\* the finally block runs and the record is stored; nothing leaves the
\* function.
C17_Step1Handled ==
    (pc = "done" /\ inv > 0 /\ ~event.complete)
    => /\ Holds(response_status, "exception", VBool(TRUE))
       /\ HasKey(response_status, "end_time")
       /\ Len(put_calls) = 1
       /\ escaped = NoExc

\* C18: when pickle.dumps / pickle.loads fail in the except clause, the
\* invocation still completes: the record has exception = True, it is
\* stored, and the pickling failure does not reach the caller.  (A failing
\* put_data and a configuration without a queue url are set aside.)
C18_PickleFailureSwallowed ==
    (/\ pc = "done"
     /\ pending # NoExc
     /\ ConfigUsable(event)
     /\ escaped.tag # "StorageError")
    => /\ Holds(response_status, "exception", VBool(TRUE))
       /\ store_status => Len(put_calls) = 1
       /\ escaped = NoExc

\* C19: a record whose failure the supervisor detected (WRONGVERSION,
\* OUTATIME, OUTOFMEMORY, an error while parsing the stats file) has
\* exception = True, has exc_info and has no result field.
C19_NoResultOnFailure ==
    (/\ InFinally
     /\ \/ hist.outcome \in {"WRONGVERSION", "OUTATIME", "OUTOFMEMORY"}
        \/ hist.outcome = "internal" /\ hist.stats_read)
    => /\ Holds(response_status, "exception", VBool(TRUE))
       /\ HasKey(response_status, "exc_info")
       /\ ~HasKey(response_status, "result")

\* C20: every invocation that has entered its try statement returns, even
\* if the child never finishes and no queue attempt ever succeeds.
C20_Terminates ==
    (pc \in {"join", "finalize", "publish", "store"}) ~> (pc = "done")

\* C20 witness: the child outlived the join and is still alive, all five
\* queue attempts failed, and function_handler has returned.
C20_Witness ==
    /\ pc = "done"
    /\ hist.outcome = "OUTATIME"
    /\ IsAlive(tr)
    /\ output_query_count = MaxQueueAttempts /\ ~status_sent

\* C21: the outcome of the join matches what the child did.  A child that
\* pushed its token and was gone when tr.join returned is reported neither
\* as OUTATIME nor as OUTOFMEMORY; a child that pushed its token and was
\* still alive when tr.join returned is reported as OUTATIME, its token left
\* on the queue and its stats file unread.
C21_OutcomeMatchesChild ==
    /\ (hist.token_at_join /\ ~hist.alive_at_join)
       => /\ hist.outcome \in {"ok", "internal"}
          /\ hist.queue_read
    /\ (hist.token_at_join /\ hist.alive_at_join)
       => /\ hist.outcome = "OUTATIME"
          /\ result_queue > 0
          /\ ~hist.queue_read /\ ~hist.stats_read
          /\ \A i \in 1..Len(response_status) : response_status[i].by = 0
          /\ Holds(response_status, "exc_info", VStr("OUTATIME"))

\* C21 witness: the join returned while the child, its stats written and its
\* token pushed, was in its cleanup; the invocation returned with OUTATIME.
C21_Witness ==
    /\ pc = "done"
    /\ hist.token_at_join /\ hist.alive_at_join
    /\ tr.state = "signalled"
    /\ Len(stats_file.lines) = MaxLines
    /\ hist.outcome = "OUTATIME"

\* C22: the status is published to the queue at most once in an invocation,
\* also when an attempt fails after basic_publish, at connection.close().
C22_PublishedAtMostOnce ==
    Len(published) <= 1

\* C23: in every record handed to put_data or published, call_id, job_id,
\* executor_id, host_submit_time and start_time are the values of the event
\* and of the entry of function_handler, whatever the stats file held.
C23_IdentityKept ==
    (InFinally /\ event.complete)
    => /\ Holds(response_status, "call_id", VStr(event.call_id))
       /\ Holds(response_status, "job_id", VStr(event.job_id))
       /\ Holds(response_status, "executor_id", VStr(event.executor_id))
       /\ Holds(response_status, "host_submit_time", VStr(event.host_submit_time))
       /\ Holds(response_status, "start_time", VTime(TimeAtEntry(inv)))

\* C24: an invocation whose event has a mismatching version tag has no
\* effect besides its record: it starts no child, and from its entry to its
\* return os.environ and the stats file stay as the previous invocation left
\* them (not updated, not deleted); the stats file is not read.
C24_MismatchNoEffect ==
    /\ [](hist.outcome = "WRONGVERSION"
          => /\ tr = NoChild
             /\ ~hist.started /\ ~hist.environ_updated
             /\ ~hist.queue_read /\ ~hist.stats_read
             /\ \A i \in 1..Len(response_status) : response_status[i].by = 0)
    /\ [][(event'.complete /\ event'.pywren_version # RuntimeVersion)
          => (environ' = environ /\ stats_file' = stats_file)]_vars

\* C24 witness: the second invocation has a mismatching version tag and has
\* returned; the stats file and the STORE_STATUS setting that the first
\* invocation left are still there.
C24_Witness ==
    /\ pc = "done"
    /\ inv = 2
    /\ event.complete /\ event.pywren_version # RuntimeVersion
    /\ event.extra_env = "none"
    /\ stats_file.exists /\ stats_file.lines # <<>>
    /\ environ.STORE_STATUS = "False"

====
